---- MODULE Spec2Model ----
(***************************************************************************)
(* A model of src/data_helper.py: the helpers that split a series          *)
(* (split_data), remove outliers (clean_data), validate a configuration    *)
(* (check_kwargs), split and clean a table column (split_and_clean) and    *)
(* derive the standard feature table (create_standard_multivariable_df).   *)
(*                                                                         *)
(* Numbers are fixed-point: the number x is stored as the integer x*Unit,  *)
(* with Unit a power of four, so that halves (quarters, ...) of a degree   *)
(* and their squares are exact, as they are in binary floating point.      *)
(* A cell is a record [na, fx]: na is TRUE for a missing value (NaN).      *)
(* A Series is [type, rows]; a row is [idx, val]: the index label and the  *)
(* cell.  A DataFrame is [type, datetime, columns, rows]; a row is         *)
(* [idx, c] with c a function from the column names to cells.              *)
(***************************************************************************)
EXTENDS Integers, Sequences, FiniteSets, TLC

VARIABLES pc, args, ret, df, local

vars == <<pc, args, ret, df, local>>

(***************************************************************************)
(* Bounds of the model.                                                    *)
(***************************************************************************)
\* series and tables have at most MaxLen rows
MaxLen == 3
\* ordinary series values are 1..MaxVal (and the outlier, and NaN)
MaxVal == 3
\* fractions (split, training_percent) are multiples of 1/2^FracBits
FracBits == 2
\* thresholds are multiples of 1/2^ThrBits
ThrBits == 1
\* temperatures are multiples of 1/2^TempBits of a degree
TempBits == 1

FDen == 2 ^ FracBits
ThrDen == 2 ^ ThrBits
Unit == 2 ^ (2 * TempBits)

(***************************************************************************)
(* Cells and arithmetic.                                                   *)
(***************************************************************************)
NaN == [na |-> TRUE, fx |-> 0]

Fx(k) == [na |-> FALSE, fx |-> k]

Num(k) == Fx(k * Unit)

Abs(x) == IF x < 0 THEN 0 - x ELSE x

\* truncation toward zero of num/den (den > 0): Python's int() of a float
Trunc(num, den) ==
    IF num >= 0 THEN num \div den ELSE 0 - ((0 - num) \div den)

\* num/den (den > 0) rounded to the nearest integer, a tie going to the even
\* neighbour: Python's round(x, 0) of a float and numpy's around()
RoundHalfEven(num, den) ==
    LET q == num \div den
        r == num % den
    IN  IF 2 * r < den THEN q
        ELSE IF 2 * r > den THEN q + 1
        ELSE IF q % 2 = 0 THEN q ELSE q + 1

\* Series.round(0), cell by cell
RoundCell(c) ==
    IF c.na THEN NaN ELSE Fx(RoundHalfEven(c.fx, Unit) * Unit)

(***************************************************************************)
(* Series.                                                                 *)
(***************************************************************************)
Series(rows) == [type |-> "Series", dtype |-> "float64", rows |-> rows]

IsSeries(data) == data.type = "Series"

\* np.issubdtype(data.values.dtype, np.number)
IsNumeric(data) == data.dtype = "float64"

\* data[a:b] with 0 <= a, positional
Slice(data, a, b) == Series(SubSeq(data.rows, a + 1, b))

\* data[mask]: the rows whose mask is TRUE, in order, labels kept
Masked(data, mask) ==
    LET n == Len(data.rows)
        F[i \in 0..n] ==
            IF i = 0 THEN <<>>
            ELSE IF mask[i] THEN Append(F[i - 1], data.rows[i]) ELSE F[i - 1]
    IN  Series(F[n])

\* pd.concat([a, b]) of two Series
Concat(a, b) == Series(a.rows \o b.rows)

NoneRaised == "none"

Raise(exc) == [raised |-> exc]

(***************************************************************************)
(* split_data                                                              *)
(***************************************************************************)
length_training_trunc(split, n) == Trunc(split.num * n, FDen)

\* int(round(split * len(data), 0))
length_training(split, n) == RoundHalfEven(split.num * n, FDen)

split_data(data, split) ==
    IF ~IsSeries(data) THEN Raise("TypeError")
    ELSE IF split.type # "float" THEN Raise("TypeError")
    ELSE IF ~(0 < split.num /\ split.num < FDen) THEN Raise("ValueError")
    ELSE LET n == Len(data.rows)
             k == length_training(split, n)
         IN  [raised |-> NoneRaised,
              training |-> Slice(data, 0, k),
              testing |-> Slice(data, k, n)]

(***************************************************************************)
(* clean_data                                                              *)
(***************************************************************************)
IsNumber(threshold) == threshold.type \in {"int", "float"}

\* the non-missing values of a series, as a sequence of fixed-point integers
Present(data) ==
    LET rows == Masked(data, [i \in 1..Len(data.rows) |-> ~data.rows[i].val.na]).rows
    IN  [i \in 1..Len(rows) |-> rows[i].val.fx]

\* the k-th smallest (k in 1..Len(xs)) of a sequence of integers
Kth(xs, k) ==
    CHOOSE v \in {xs[i] : i \in 1..Len(xs)} :
        /\ Cardinality({i \in 1..Len(xs) : xs[i] < v}) < k
        /\ k <= Cardinality({i \in 1..Len(xs) : xs[i] <= v})

\* four times Series.quantile(j/4) for j in 0..4 (missing values skipped,
\* linear interpolation between the two nearest order statistics)
Quantile4(data, j) ==
    LET xs == Present(data)
        m == Len(xs)
        p == j * (m - 1)
        lo == p \div 4
        r == p % 4
        hi == IF lo + 2 <= m THEN lo + 2 ELSE m
    IN  IF m = 0 THEN NaN
        ELSE Fx(Kth(xs, lo + 1) * (4 - r) + Kth(xs, hi) * r)

\* data.values > threshold
AboveThreshold(v, threshold) ==
    ~v.na /\ v.fx * ThrDen > threshold.num * Unit

AtLeastThreshold(v, threshold) ==
    ~v.na /\ v.fx * ThrDen >= threshold.num * Unit

value_mask_ge(data, threshold) ==
    [i \in 1..Len(data.rows) |-> AtLeastThreshold(data.rows[i].val, threshold)]

\* the boolean mask data.values > threshold
value_mask(data, threshold) ==
    [i \in 1..Len(data.rows) |-> AboveThreshold(data.rows[i].val, threshold)]

\* the bounds of the IQR method, each multiplied by 4*ThrDen
iqr_bounds(data, threshold) ==
    LET q1 == Quantile4(data, 1)
        q3 == Quantile4(data, 3)
    IN  IF q1.na THEN [na |-> TRUE, q1 |-> 0, q3 |-> 0, lower |-> 0, upper |-> 0]
        ELSE LET iqr == q3.fx - q1.fx
             IN  [na |-> FALSE, q1 |-> q1.fx, q3 |-> q3.fx,
                  lower |-> q1.fx * ThrDen - threshold.num * iqr,
                  upper |-> q3.fx * ThrDen + threshold.num * iqr]

iqr_mask_closed(data, threshold) ==
    LET b == iqr_bounds(data, threshold)
    IN  [i \in 1..Len(data.rows) |->
            LET v == data.rows[i].val
            IN  /\ ~v.na
                /\ ~b.na
                /\ v.fx * 4 * ThrDen >= b.lower
                /\ v.fx * 4 * ThrDen <= b.upper]

\* the mask (data.values > lower_bound) & (data.values < upper_bound)
iqr_mask(data, threshold) ==
    LET b == iqr_bounds(data, threshold)
    IN  [i \in 1..Len(data.rows) |->
            LET v == data.rows[i].val
            IN  /\ ~v.na
                /\ ~b.na
                /\ v.fx * 4 * ThrDen > b.lower
                /\ v.fx * 4 * ThrDen < b.upper]

clean_data(data, threshold, clean_type) ==
    IF clean_type = "value"
    THEN IF ~IsSeries(data) THEN Raise("TypeError")
         ELSE IF ~IsNumeric(data) THEN Raise("TypeError")
         ELSE IF threshold.type # "int" THEN Raise("TypeError")
         ELSE [raised |-> NoneRaised,
               cleaned_data |-> Masked(data, value_mask(data, threshold))]
    ELSE IF ~IsSeries(data) THEN Raise("TypeError")
         ELSE IF ~IsNumber(threshold) THEN Raise("TypeError")
         \* Series.quantile refuses a series of strings
         ELSE IF ~IsNumeric(data) THEN Raise("TypeError")
         ELSE [raised |-> NoneRaised,
               cleaned_data |-> Masked(data, iqr_mask(data, threshold))]

(***************************************************************************)
(* Tables (DataFrames).                                                    *)
(***************************************************************************)
DataFrame(datetime, columns, rows) ==
    [type |-> "DataFrame", datetime |-> datetime, columns |-> columns, rows |-> rows]

ColumnSet(table) == {table.columns[i] : i \in 1..Len(table.columns)}

\* table[name]: the column as a Series, labels kept
Column(table, name) ==
    Series([i \in 1..Len(table.rows) |->
               [idx |-> table.rows[i].idx, val |-> table.rows[i].c[name]]])

\* the rows a..b (1-based, inclusive) of a table
RowSlice(table, a, b) == [table EXCEPT !.rows = SubSeq(table.rows, a, b)]

\* Series.to_frame() of a series named name
ToFrame(series, name) ==
    DataFrame(TRUE, <<name>>,
              [i \in 1..Len(series.rows) |->
                  [idx |-> series.rows[i].idx, c |-> (name :> series.rows[i].val)]])

(***************************************************************************)
(* check_kwargs                                                            *)
(***************************************************************************)
check_kwargs(kwargs) ==
    IF kwargs.point.type # "str" THEN Raise("TypeError")
    ELSE IF ~(kwargs.training_percent.num > 0 /\ kwargs.training_percent.num < FDen)
    THEN Raise("ValueError")
    ELSE IF ~(kwargs.clean_type = "value" \/ kwargs.clean_type = "iqr")
    THEN Raise("ValueError")
    ELSE IF ~(kwargs.threshold.type = "int" \/ kwargs.threshold.type = "float")
    THEN Raise("TypeError")
    ELSE IF ~(kwargs.model_type = "LSTM" \/ kwargs.model_type = "Random Forest")
    THEN Raise("ValueError")
    ELSE IF kwargs.train_on_residuals.type # "bool" THEN Raise("TypeError")
    ELSE IF ~(kwargs.method = "bfill" \/ kwargs.method = "ffill")
    THEN Raise("TypeError")
    ELSE [raised |-> NoneRaised, value |-> "Good values!"]

(***************************************************************************)
(* split_and_clean                                                         *)
(***************************************************************************)
Min(a, b) == IF a < b THEN a ELSE b

\* int(trng_per * len(df)), the index np.split cuts the rows at
split_index(trng_per, n) == Trunc(trng_per.num * n, FDen)

HasColumn(table, point) == point.type = "str" /\ point.name \in ColumnSet(table)

\* a variant that cleans the whole column, not only the training rows
split_and_clean_all(table, kwargs) ==
    LET n == Len(table.rows)
        k == Min(split_index(kwargs.training_percent, n), n)
    IN  IF ~HasColumn(table, kwargs.point) THEN Raise("KeyError")
        ELSE LET training == Column(RowSlice(table, 1, k), kwargs.point.name)
                 testing == Column(RowSlice(table, k + 1, n), kwargs.point.name)
                 whole == Concat(training, testing)
                 cleaned ==
                     IF kwargs.clean_data
                     THEN clean_data(whole, kwargs.threshold, kwargs.clean_type)
                     ELSE [raised |-> NoneRaised, cleaned_data |-> whole]
             IN  IF cleaned.raised # NoneRaised THEN Raise(cleaned.raised)
                 ELSE [raised |-> NoneRaised,
                       training |-> training,
                       testing |-> testing,
                       combined |-> ToFrame(cleaned.cleaned_data, kwargs.point.name)]

\* the result holds the returned table (combined) and the locals training
\* (after cleaning) and testing as they are at the return
split_and_clean(table, kwargs) ==
    LET n == Len(table.rows)
        k == Min(split_index(kwargs.training_percent, n), n)
    IN  IF ~HasColumn(table, kwargs.point) THEN Raise("KeyError")
        ELSE LET training == Column(RowSlice(table, 1, k), kwargs.point.name)
                 testing == Column(RowSlice(table, k + 1, n), kwargs.point.name)
                 cleaned ==
                     IF kwargs.clean_data
                     THEN clean_data(training, kwargs.threshold, kwargs.clean_type)
                     ELSE [raised |-> NoneRaised, cleaned_data |-> training]
             IN  IF cleaned.raised # NoneRaised THEN Raise(cleaned.raised)
                 ELSE [raised |-> NoneRaised,
                       training |-> cleaned.cleaned_data,
                       testing |-> testing,
                       combined |->
                           ToFrame(Concat(cleaned.cleaned_data, testing),
                                   kwargs.point.name)]

\* split_data(df[kwargs['point']], split = kwargs['training_percent'])
split_point_column(table, kwargs) ==
    IF ~HasColumn(table, kwargs.point) THEN Raise("KeyError")
    ELSE split_data(Column(table, kwargs.point.name), kwargs.training_percent)

(***************************************************************************)
(* create_standard_multivariable_df                                        *)
(***************************************************************************)
\* degree days are counted from 65 degrees
BaseTemp == 65

NRows(table) == Len(table.rows)

\* table[name] = vals: an existing column is overwritten in place, a new one
\* is appended as the last column
SetCol(table, name, vals) ==
    [table EXCEPT
        !.columns = IF \E j \in 1..Len(@) : @[j] = name THEN @ ELSE Append(@, name),
        !.rows = [i \in 1..Len(@) |->
                     [idx |-> @[i].idx, c |-> (name :> vals[i]) @@ @[i].c]]]

\* table[name] = a value computed row by row: Op of the row
SetColBy(table, name, Op(_)) ==
    [table EXCEPT
        !.columns = IF \E j \in 1..Len(@) : @[j] = name THEN @ ELSE Append(@, name),
        !.rows = [i \in 1..Len(@) |->
                     [idx |-> @[i].idx, c |-> (name :> Op(@[i])) @@ @[i].c]]]

\* table.rename(columns = {old: new}), a no-op when old is no column
Rename(table, old, new) ==
    [table EXCEPT
        !.columns = [j \in 1..Len(@) |-> IF @[j] = old THEN new ELSE @[j]],
        !.rows = [i \in 1..Len(@) |->
                     [idx |-> @[i].idx,
                      c |-> [n \in {IF m = old THEN new ELSE m : m \in DOMAIN @[i].c} |->
                                IF n = new /\ old \in DOMAIN @[i].c
                                THEN @[i].c[old] ELSE @[i].c[n]]]]]

\* table.drop(names, axis = 1)
DropCols(table, names) ==
    [table EXCEPT
        !.columns = SelectSeq(@, LAMBDA n : n \notin names),
        !.rows = [i \in 1..Len(@) |->
                     [idx |-> @[i].idx,
                      c |-> [n \in (DOMAIN @[i].c) \ names |-> @[i].c[n]]]]]

\* x - 65.0
MinusBase(c) == IF c.na THEN NaN ELSE Fx(c.fx - BaseTemp * Unit)

\* 65.0 - x
BaseMinus(c) == IF c.na THEN NaN ELSE Fx(BaseTemp * Unit - c.fx)

\* df.loc[df.X < 0, "X"] = 0.0, for one cell (a missing value is not < 0)
ZeroIfNegative(c) == IF ~c.na /\ c.fx < 0 THEN Fx(0) ELSE c

\* x ** 2
Square(c) == IF c.na THEN NaN ELSE Fx((c.fx * c.fx) \div Unit)

\* a variant that rounds CDD and HDD before they are squared
degree_days_round_first(table) ==
    LET t1 == SetColBy(table, "CDD", LAMBDA r : MinusBase(r.c["OAT"]))
        t2 == SetColBy(t1, "CDD", LAMBDA r : RoundCell(ZeroIfNegative(r.c["CDD"])))
        t3 == SetColBy(t2, "HDD", LAMBDA r : BaseMinus(r.c["OAT"]))
        t4 == SetColBy(t3, "HDD", LAMBDA r : RoundCell(ZeroIfNegative(r.c["HDD"])))
        t5 == SetColBy(t4, "CDD2", LAMBDA r : Square(r.c["CDD"]))
        t6 == SetColBy(t5, "HDD2", LAMBDA r : Square(r.c["HDD"]))
    IN  SetColBy(t6, "OAT", LAMBDA r : RoundCell(r.c["OAT"]))

\* lines 270-280, statement by statement
degree_days(table) ==
    LET t1 == SetColBy(table, "CDD", LAMBDA r : MinusBase(r.c["OAT"]))
        t2 == SetColBy(t1, "CDD", LAMBDA r : ZeroIfNegative(r.c["CDD"]))
        t3 == SetColBy(t2, "HDD", LAMBDA r : BaseMinus(r.c["OAT"]))
        t4 == SetColBy(t3, "HDD", LAMBDA r : ZeroIfNegative(r.c["HDD"]))
        t5 == SetColBy(t4, "CDD2", LAMBDA r : Square(r.c["CDD"]))
        t6 == SetColBy(t5, "HDD2", LAMBDA r : Square(r.c["HDD"]))
        t7 == SetColBy(t6, "OAT", LAMBDA r : RoundCell(r.c["OAT"]))
        t8 == SetColBy(t7, "CDD", LAMBDA r : RoundCell(r.c["CDD"]))
        t9 == SetColBy(t8, "HDD", LAMBDA r : RoundCell(r.c["HDD"]))
        t10 == SetColBy(t9, "CDD2", LAMBDA r : RoundCell(r.c["CDD2"]))
    IN  SetColBy(t10, "HDD2", LAMBDA r : RoundCell(r.c["HDD2"]))

\* A timestamp is a number of hours since Monday 2018-01-01 00:00, within
\* that year.
HourOf(ts) == ts % 24

DayOf(ts) == ts \div 24

\* Monday is 0
WeekdayOf(ts) == DayOf(ts) % 7

MonthEnds == <<31, 59, 90, 120, 151, 181, 212, 243, 273, 304, 334, 365>>

MonthOf(ts) == 1 + Cardinality({m \in 1..12 : MonthEnds[m] <= DayOf(ts)})

\* prefix + str(k)
CatName(prefix, k) == prefix \o ToString(k)

\* [prefix + str(x) for x in range(lo, hi + 1)]
CatNames(prefix, lo, hi) == [j \in 1..(hi - lo + 1) |-> CatName(prefix, lo + j - 1)]

MonthNames == CatNames("MONTH_", 1, 12)

TodNames == CatNames("TOD_", 0, 23)

DowNames == CatNames("DOW_", 0, 6)

\* pd.get_dummies(data = table, columns = [col]): col is replaced by one
\* indicator column per category present, in category order, at the end;
\* names lists the names of the categories lo, lo+1, ...
get_dummies(table, col, names, lo) ==
    [table EXCEPT
        !.columns =
            SelectSeq(@, LAMBDA n : n # col)
                \o SelectSeq(names, LAMBDA n :
                       \E i \in 1..NRows(table) :
                           names[table.rows[i].c[col].fx \div Unit - lo + 1] = n),
        !.rows = [i \in 1..Len(@) |->
            [idx |-> @[i].idx,
             c |-> [n \in {names[@[h].c[col].fx \div Unit - lo + 1] : h \in 1..Len(@)} |->
                       IF n = names[@[i].c[col].fx \div Unit - lo + 1]
                       THEN Num(1) ELSE Num(0)]
                   @@ [n \in (DOMAIN @[i].c) \ {col} |-> @[i].c[n]]]]]

\* table.T.reindex(names).T: exactly the columns names, in that order; a
\* column the table lacks is all missing
reindex(table, names) ==
    [table EXCEPT
        !.columns = names,
        !.rows = [i \in 1..Len(@) |->
            [idx |-> @[i].idx,
             c |-> [n \in {names[j] : j \in 1..Len(names)} |->
                       IF n \in DOMAIN @[i].c THEN @[i].c[n] ELSE NaN]]]]

\* table.fillna(0)
fillna0(table) ==
    [table EXCEPT
        !.rows = [i \in 1..Len(@) |->
            [idx |-> @[i].idx,
             c |-> [n \in DOMAIN @[i].c |->
                       IF @[i].c[n].na THEN Num(0) ELSE @[i].c[n]]]]]

\* a variant that keeps the first column
drop_none(table) == table

\* table.drop(table.columns[0], axis = 1)
drop_first(table) ==
    [table EXCEPT
        !.columns = Tail(@),
        !.rows = [i \in 1..Len(@) |->
            [idx |-> @[i].idx,
             c |-> [n \in (DOMAIN @[i].c) \ {table.columns[1]} |-> @[i].c[n]]]]]

\* get_dummies, reindex to the full list, fill with 0, drop the first column
dummies(table, col, names, lo) ==
    drop_first(fillna0(reindex(get_dummies(table, col, names, lo), names)))

\* Series.shift(k): the value k rows earlier, missing in the first k rows
shift_series(vals, k) ==
    [t \in 1..Len(vals) |-> IF t - k < 1 THEN NaN ELSE vals[t - k]]

\* table.iloc[:, pos] for a position 0 <= pos < number of columns
ColumnAt(table, pos) ==
    [t \in 1..NRows(table) |-> table.rows[t].c[table.columns[pos + 1]]]

\* the position iloc resolves point_location to
Position(table, point_location) ==
    IF point_location < 0 THEN Len(table.columns) + point_location ELSE point_location

\* pd.concat([a, b], axis = 1) of tables over the same index
ConcatColumns(a, b) ==
    [a EXCEPT
        !.columns = @ \o b.columns,
        !.rows = [i \in 1..Len(@) |-> [idx |-> @[i].idx, c |-> @[i].c @@ b.rows[i].c]]]

\* table.dropna()
dropna_rows(table) ==
    [table EXCEPT
        !.rows = SelectSeq(@, LAMBDA r : \A n \in DOMAIN r.c : ~r.c[n].na)]

(***************************************************************************)
(* Inputs.                                                                 *)
(***************************************************************************)
Outlier == 100

Cells == {Num(k) : k \in 1..MaxVal} \cup {Num(Outlier), NaN}

\* the series of n rows over a set of cells, labelled 1..n
SeriesOver(cells, n) ==
    {Series([i \in 1..n |-> [idx |-> i, val |-> vs[i]]]) : vs \in [1..n -> cells]}

AllSeries == UNION {SeriesOver(Cells, n) : n \in 0..MaxLen}

\* the fixture S = [1, 2, 3, 4, 5, 100]
Fixture ==
    LET vs == <<1, 2, 3, 4, 5, 100>>
    IN  Series([i \in 1..6 |-> [idx |-> i, val |-> Num(vs[i])]])

NotASeries == [type |-> "list", dtype |-> "object", rows |-> <<>>]

\* a Series of strings
TextSeries == [type |-> "Series", dtype |-> "object", rows |-> <<>>]

\* split values: the floats k/FDen from 0 to above 1, and the ints 0 and 1
Splits ==
    {[type |-> "float", num |-> k] : k \in 0..(FDen + 1)}
        \cup {[type |-> "int", num |-> k * FDen] : k \in 0..1}

\* thresholds: the ints 0..2, the floats k/ThrDen up to 2, and a string
Thresholds ==
    {[type |-> "int", num |-> k * ThrDen] : k \in 0..2}
        \cup {[type |-> "float", num |-> k] : k \in 0..(2 * ThrDen)}
        \cup {[type |-> "str", num |-> 0]}

NoTable == [type |-> "none"]

NoRet == [raised |-> "pending"]

NoLocals == [i |-> 0]

(***************************************************************************)
(* Specification of split_data alone.                                      *)
(***************************************************************************)
InitSplit ==
    /\ pc = "call"
    /\ args \in [data : AllSeries \cup {NotASeries}, split : Splits]
    /\ ret = NoRet
    /\ df = NoTable
    /\ local = NoLocals

CallSplitData ==
    /\ pc = "call"
    /\ ret' = split_data(args.data, args.split)
    /\ pc' = IF ret'.raised = NoneRaised THEN "returned" ELSE "raised"
    /\ UNCHANGED <<args, df, local>>

NextSplit == CallSplitData

SpecSplit == InitSplit /\ [][NextSplit]_vars

(***************************************************************************)
(* Specification of clean_data alone.                                      *)
(***************************************************************************)
InitClean ==
    /\ pc = "call"
    /\ args \in [data : AllSeries \cup {Fixture, NotASeries, TextSeries},
                 threshold : Thresholds,
                 clean_type : {"value", "iqr"}]
    /\ ret = NoRet
    /\ df = NoTable
    /\ local = NoLocals

CallCleanData ==
    /\ pc = "call"
    /\ ret' = clean_data(args.data, args.threshold, args.clean_type)
    /\ pc' = IF ret'.raised = NoneRaised THEN "returned" ELSE "raised"
    /\ UNCHANGED <<args, df, local>>

NextClean == CallCleanData

SpecClean == InitClean /\ [][NextClean]_vars

(***************************************************************************)
(* Specification of the pipeline: check_kwargs, then split_and_clean, then *)
(* split_data, on one table and one configuration.                         *)
(***************************************************************************)
PipeCells == {Num(1), Num(2), NaN}

\* a two-column table: the point column kW holds the series, OAT is constant
PipeTable(series) ==
    DataFrame(TRUE, <<"kW", "OAT">>,
              [i \in 1..Len(series.rows) |->
                  [idx |-> series.rows[i].idx,
                   c |-> ("kW" :> series.rows[i].val) @@ ("OAT" :> Num(65))]])

PipeTables == {PipeTable(s) : s \in UNION {SeriesOver(PipeCells, n) : n \in 0..MaxLen}}

PipeThresholds ==
    {[type |-> "int", num |-> ThrDen], [type |-> "float", num |-> ThrDen],
     [type |-> "float", num |-> ThrDen \div 2], [type |-> "str", num |-> 0]}

Str(name) == [type |-> "str", name |-> name]

Bool(b) == [type |-> "bool", value |-> b]

\* the fields split_and_clean never validates, at most one of them invalid
GoodRest ==
    [point |-> Str("kW"), model_type |-> "LSTM",
     train_on_residuals |-> Bool(FALSE), method |-> "bfill"]

KwRest ==
    {GoodRest,
     [GoodRest EXCEPT !.model_type = "Random Forest", !.method = "ffill",
                      !.train_on_residuals = Bool(TRUE)],
     [GoodRest EXCEPT !.point = [type |-> "int", name |-> "0"]],
     [GoodRest EXCEPT !.point = Str("kWh")],
     [GoodRest EXCEPT !.model_type = "ARIMA"],
     [GoodRest EXCEPT !.train_on_residuals = [type |-> "str", value |-> FALSE]],
     [GoodRest EXCEPT !.method = "pad"]}

Kwargs ==
    {[point |-> r.point, model_type |-> r.model_type,
      train_on_residuals |-> r.train_on_residuals, method |-> r.method,
      training_percent |-> tp, clean_type |-> ct, threshold |-> th,
      clean_data |-> cd] :
        r \in KwRest,
        tp \in {[type |-> "float", num |-> k] : k \in 0..FDen},
        ct \in {"value", "iqr", "zscore"},
        th \in PipeThresholds,
        cd \in BOOLEAN}

InitPipe ==
    /\ pc = "check_kwargs"
    /\ args \in [kwargs : Kwargs]
    /\ df \in PipeTables
    /\ ret = [check |-> NoRet, sac |-> NoRet, split |-> NoRet]
    /\ local = NoLocals

CallCheckKwargs ==
    /\ pc = "check_kwargs"
    /\ ret' = [ret EXCEPT !.check = check_kwargs(args.kwargs)]
    /\ pc' = "split_and_clean"
    /\ UNCHANGED <<args, df, local>>

CallSplitAndClean ==
    /\ pc = "split_and_clean"
    /\ ret' = [ret EXCEPT !.sac = split_and_clean(df, args.kwargs)]
    /\ pc' = "split_data"
    /\ UNCHANGED <<args, df, local>>

CallSplitPointColumn ==
    /\ pc = "split_data"
    /\ ret' = [ret EXCEPT !.split = split_point_column(df, args.kwargs)]
    /\ pc' = "done"
    /\ UNCHANGED <<args, df, local>>

NextPipe == CallCheckKwargs \/ CallSplitAndClean \/ CallSplitPointColumn

SpecPipe == InitPipe /\ [][NextPipe]_vars

(***************************************************************************)
(* Specifications of create_standard_multivariable_df.                     *)
(***************************************************************************)
\* feature tables have at most MaxRows rows
MaxRows == 2
\* at most MaxShift lag columns are asked for
MaxShift == 2
\* temperatures lie within MaxDev steps of 1/2^TempBits degree around 65
MaxDev == 3

TempStep == 2 ^ TempBits

Temp(j) == Fx(BaseTemp * Unit + j * TempStep)

Temps == {Temp(j) : j \in {0 - MaxDev, 0, 1, MaxDev}} \cup {Num(BaseTemp + 2), NaN}

\* the first timestamps of the hourly tables: Mon 1 Jan 00:00, Sat 6 Jan 23:00,
\* Wed 31 Jan 23:00, Sun 30 Dec 01:00
Starts == {0, 143, 743, 8713}

Layouts == {<<"OAT">>, <<"aiTIT4045">>, <<"kW", "OAT">>, <<"kW">>}

\* an hourly table over a layout: the temperature column holds temps, the
\* column kW holds 11, 12, ...; without a timestamp index the labels are 0, 1, ...
FeatTable(layout, datetime, start, temps) ==
    DataFrame(datetime, layout,
              [i \in 1..Len(temps) |->
                  [idx |-> IF datetime THEN start + (i - 1) ELSE i - 1,
                   c |-> [n \in {layout[j] : j \in 1..Len(layout)} |->
                             IF n = "kW" THEN Num(10 + i) ELSE temps[i]]]])

\* the temperature columns of the tables, of 1 to MaxRows rows
TempColumns(cells) == UNION {[1..n -> cells] : n \in 1..MaxRows}

\* the features of varied temperatures and timestamps, with the default
\* point_location and shift
InitFeat ==
    /\ pc = "call"
    /\ df \in {FeatTable(l, TRUE, s, ts) :
                  l \in Layouts, s \in Starts, ts \in TempColumns(Temps)}
    /\ args \in [table : {df}, point_location : {0}, shift : {1},
                 rename_OAT : BOOLEAN, dropna : BOOLEAN]
    /\ ret = NoRet
    /\ local = NoLocals

\* the positions asked for: from the first column to past the last column
PointLocations == 0..(2 + 8)

\* varied lag arguments, layouts and index types
InitLag ==
    /\ pc = "call"
    /\ df \in {FeatTable(l, dt, 143, ts) :
                  l \in Layouts, dt \in BOOLEAN, ts \in TempColumns({Temp(MaxDev), NaN})}
    /\ args \in [table : {df}, point_location : PointLocations, shift : 0..MaxShift,
                 rename_OAT : BOOLEAN, dropna : BOOLEAN]
    /\ ret = NoRet
    /\ local = NoLocals

\* lines 267-280: the renaming and the degree days; df.OAT raises when the
\* table has no column OAT
CreateDegreeDays ==
    /\ pc = "call"
    /\ LET t1 == IF args.rename_OAT THEN Rename(df, "aiTIT4045", "OAT") ELSE df
       IN  IF "OAT" \notin ColumnSet(t1)
           THEN /\ df' = t1
                /\ ret' = Raise("AttributeError")
                /\ pc' = "raised"
           ELSE /\ df' = degree_days(t1)
                /\ ret' = ret
                /\ pc' = "calendar"
    /\ UNCHANGED <<args, local>>

\* lines 282-304: the columns MONTH, TOD, DOW and WEEKEND, and the indicator
\* tables month_df, tod_df, dow_df; df.index.month raises when the index
\* holds no timestamps
CreateCalendar ==
    /\ pc = "calendar"
    /\ IF ~df.datetime
       THEN /\ ret' = Raise("AttributeError")
            /\ pc' = "raised"
            /\ UNCHANGED <<df, local>>
       ELSE LET t3 == SetColBy(df, "MONTH", LAMBDA r : Num(MonthOf(r.idx)))
                t4 == SetColBy(t3, "TOD", LAMBDA r : Num(HourOf(r.idx)))
                t5 == SetColBy(t4, "DOW", LAMBDA r : Num(WeekdayOf(r.idx)))
            IN  /\ local' = [month_df |-> dummies(t3, "MONTH", MonthNames, 1),
                             tod_df |-> dummies(t4, "TOD", TodNames, 0),
                             dow_df |-> dummies(t5, "DOW", DowNames, 0),
                             i |-> 0]
                /\ df' = SetCol(t5, "WEEKEND",
                             [i \in 1..NRows(df) |->
                                 IF \/ local'.dow_df.rows[i].c["DOW_5"] = Num(1)
                                    \/ local'.dow_df.rows[i].c["DOW_6"] = Num(1)
                                 THEN Num(1) ELSE Num(0)])
                /\ ret' = ret
                /\ pc' = "shift"
    /\ UNCHANGED args

\* lines 306-308, one iteration: iloc raises when point_location is no
\* position of the table as it is at this iteration
CreateShift ==
    /\ pc = "shift"
    /\ local.i < args.shift
    /\ LET pos == Position(df, args.point_location)
       IN  IF pos < 0 \/ pos >= Len(df.columns)
           THEN /\ ret' = Raise("IndexError")
                /\ pc' = "raised"
                /\ UNCHANGED <<df, local>>
           ELSE /\ df' = SetCol(df, CatName("SHIFT_", local.i + 1),
                                shift_series(ColumnAt(df, pos), local.i + 1))
                /\ local' = [local EXCEPT !.i = @ + 1]
                /\ UNCHANGED <<ret, pc>>
    /\ UNCHANGED args

\* lines 314-323: the returned table is a new one; the caller's table keeps
\* the columns added so far
CreateReturn ==
    /\ pc = "shift"
    /\ local.i >= args.shift
    /\ LET all == ConcatColumns(ConcatColumns(ConcatColumns(df, local.month_df),
                                              local.tod_df), local.dow_df)
           kept == DropCols(all, {"MONTH", "TOD", "DOW"})
       IN  ret' = [raised |-> NoneRaised,
                   out |-> IF args.dropna THEN dropna_rows(kept) ELSE kept]
    /\ pc' = "returned"
    /\ UNCHANGED <<args, df, local>>

NextFeat == CreateDegreeDays \/ CreateCalendar \/ CreateShift \/ CreateReturn

SpecFeat == InitFeat /\ [][NextFeat]_vars

SpecLag == InitLag /\ [][NextFeat]_vars

(***************************************************************************)
(* Claims about split_data (checked under SpecSplit).                      *)
(***************************************************************************)
ValidSplit(split) == split.type = "float" /\ 0 < split.num /\ split.num < FDen

\* k is split*n rounded to the nearest integer, a tie going to the even one
NearestHalfEven(split, n, k) ==
    /\ 2 * Abs(split.num * n - k * FDen) <= FDen
    /\ 2 * Abs(split.num * n - k * FDen) = FDen => k % 2 = 0

\* C1: for a Series S of length n and a float 0 < f < 1, split_data returns
\* train = the first k elements of S and test = the other n-k, in order, with
\* k = f*n rounded to the nearest integer (ties to even); so the lengths add
\* up to n and train followed by test is S.
C1_SplitPrefixSuffix ==
    (pc # "call" /\ IsSeries(args.data) /\ ValidSplit(args.split)) =>
        /\ pc = "returned"
        /\ LET S == args.data.rows
               n == Len(S)
               k == Len(ret.training.rows)
           IN  /\ NearestHalfEven(args.split, n, k)
               /\ ret.training.rows = SubSeq(S, 1, k)
               /\ ret.testing.rows = SubSeq(S, k + 1, n)
               /\ Len(ret.training.rows) + Len(ret.testing.rows) = n
               /\ ret.training.rows \o ret.testing.rows = S

\* a tie (f*n = 1.5) with both parts non-empty
C1_Witness ==
    /\ pc = "returned"
    /\ ValidSplit(args.split)
    /\ 2 * args.split.num * Len(args.data.rows) = 3 * FDen
    /\ Len(ret.training.rows) = 2
    /\ Len(ret.testing.rows) = 1

(***************************************************************************)
(* Claims about clean_data (checked under SpecClean).                      *)
(***************************************************************************)
RowsOf(data) == {data.rows[i] : i \in 1..Len(data.rows)}

\* the rows keep their relative order: the labels, which are the positions in
\* the original series, increase strictly
InOriginalOrder(rows) ==
    \A i, j \in 1..Len(rows) : i < j => rows[i].idx < rows[j].idx

\* C2: clean_data(S, t, 'value') returns exactly the elements of S that are
\* strictly greater than t (elements equal to t and missing ones are dropped),
\* each with its label, in the original order.
C2_ValueKeepsStrictlyGreater ==
    (pc = "returned" /\ args.clean_type = "value") =>
        /\ args.threshold.type = "int"
        /\ RowsOf(ret.cleaned_data) =
              {r \in RowsOf(args.data) :
                  ~r.val.na /\ r.val.fx * ThrDen > args.threshold.num * Unit}
        /\ InOriginalOrder(ret.cleaned_data.rows)

\* an element equal to the threshold and a missing one are dropped, one is kept
C2_Witness ==
    /\ pc = "returned"
    /\ args.clean_type = "value"
    /\ \E r \in RowsOf(args.data) :
          ~r.val.na /\ r.val.fx * ThrDen = args.threshold.num * Unit
    /\ \E r \in RowsOf(args.data) : r.val.na
    /\ Len(ret.cleaned_data.rows) = 1

\* C3: clean_data(S, m, 'iqr') takes q1 and q3, the 0.25 and 0.75 quantiles of
\* S by linear interpolation, iqr = q3 - q1, and returns exactly the elements
\* v with q1 - m*iqr < v < q3 + m*iqr (both ends exclusive), in order; for
\* S = [1,2,3,4,5,100] and m = 1.5: q1 = 2.25, q3 = 4.75, iqr = 2.5, and only
\* 100 is removed.
C3_IqrKeepsStrictlyInside ==
    (pc = "returned" /\ args.clean_type = "iqr") =>
        LET b == iqr_bounds(args.data, args.threshold)
        IN  /\ RowsOf(ret.cleaned_data) =
                  {r \in RowsOf(args.data) :
                      /\ ~r.val.na
                      /\ ~b.na
                      /\ b.lower < r.val.fx * 4 * ThrDen
                      /\ r.val.fx * 4 * ThrDen < b.upper}
            /\ InOriginalOrder(ret.cleaned_data.rows)
            /\ (args.data = Fixture /\ 2 * args.threshold.num = 3 * ThrDen) =>
                  \* 4*q1 = 9, 4*q3 = 19, 4*iqr = 10
                  /\ b.q1 = 9 * Unit
                  /\ b.q3 = 19 * Unit
                  /\ b.q3 - b.q1 = 10 * Unit
                  /\ ret.cleaned_data.rows = SubSeq(Fixture.rows, 1, 5)

\* the fixture with m = 1.5
C3_Witness ==
    /\ pc = "returned"
    /\ args.clean_type = "iqr"
    /\ args.data = Fixture
    /\ args.threshold = [type |-> "float", num |-> 3 * (ThrDen \div 2)]
    /\ Len(ret.cleaned_data.rows) = 5

(***************************************************************************)
(* Claims about the pipeline (checked under SpecPipe).                     *)
(***************************************************************************)
Returned(r) == r.raised = NoneRaised

\* C8: with clean_data enabled, split_and_clean cleans only the training
\* prefix of the selected column: the returned one-column table is the cleaned
\* training rows followed by the whole testing suffix, every testing row with
\* its label and value, no row from outside the column, in the original order.
C8_OnlyTrainingCleaned ==
    (Returned(ret.sac) /\ args.kwargs.clean_data) =>
        LET col == Column(df, args.kwargs.point.name).rows
            n == Len(col)
            out == Column(ret.sac.combined, args.kwargs.point.name).rows
        IN  /\ ret.sac.combined.columns = <<args.kwargs.point.name>>
            /\ \E k \in 0..n :
                  /\ Len(out) >= n - k
                  /\ SubSeq(out, Len(out) - (n - k) + 1, Len(out)) = SubSeq(col, k + 1, n)
                  /\ LET head == SubSeq(out, 1, Len(out) - (n - k))
                         cleaned == clean_data(Series(SubSeq(col, 1, k)),
                                               args.kwargs.threshold,
                                               args.kwargs.clean_type)
                     IN  /\ Returned(cleaned)
                         /\ head = cleaned.cleaned_data.rows
                  /\ ret.sac.testing.rows = SubSeq(col, k + 1, n)
            /\ {out[i] : i \in 1..Len(out)} \subseteq {col[i] : i \in 1..n}
            /\ InOriginalOrder(out)

\* a training row was removed while a testing row the policy would remove
\* (a missing value) is still in the returned table
C8_Witness ==
    /\ Returned(ret.sac)
    /\ args.kwargs.clean_data
    /\ Len(ret.sac.combined.rows) < Len(df.rows)
    /\ \E i \in 1..Len(ret.sac.testing.rows) : ret.sac.testing.rows[i].val.na
    /\ \E i \in 1..Len(ret.sac.combined.rows) :
          ret.sac.combined.rows[i].c[args.kwargs.point.name].na

\* C9: for 0 < f < 1, split_and_clean (training_percent = f) and split_data
\* (split = f) put the boundary between training and testing rows at the same
\* position.
C9_SameBoundary ==
    (Returned(ret.sac) /\ Returned(ret.split)) =>
        Len(df.rows) - Len(ret.sac.testing.rows) = Len(ret.split.training.rows)

\* C10: a configuration check_kwargs accepts does not make the following
\* split_and_clean (clean_data enabled, numeric column) fail on the type of
\* 'threshold'.
C10_AcceptedThresholdCleans ==
    (Returned(ret.check) /\ args.kwargs.clean_data /\ pc \in {"split_data", "done"}) =>
        ret.sac.raised # "TypeError"

(***************************************************************************)
(* Claims about create_standard_multivariable_df (C4, C5 under SpecFeat;   *)
(* C6, C7 under SpecLag).                                                  *)
(***************************************************************************)
\* the temperature the input table holds at the row labelled idx
InputTemp(idx) ==
    LET row == CHOOSE r \in {args.table.rows[i] : i \in 1..NRows(args.table)} :
                   r.idx = idx
    IN  IF "OAT" \in DOMAIN row.c THEN row.c["OAT"] ELSE row.c["aiTIT4045"]

OutRows == {ret.out.rows[i] : i \in 1..NRows(ret.out)}

\* cell is the whole number nearest to (raw/Unit)^2, a tie going to the even one
NearestToSquare(cell, raw) ==
    /\ ~cell.na
    /\ cell.fx % Unit = 0
    /\ 2 * Abs(raw * raw - cell.fx * Unit) <= Unit * Unit
    /\ 2 * Abs(raw * raw - cell.fx * Unit) = Unit * Unit => (cell.fx \div Unit) % 2 = 0

\* C4 as stated: in every row of the returned table, for every base
\* temperature (non-integer ones included), CDD2 is the square of that row's
\* CDD and HDD2 the square of that row's HDD.
C4_SquareOfSameRow ==
    pc = "returned" =>
        \A r \in OutRows :
            /\ r.c["CDD2"] = Square(r.c["CDD"])
            /\ r.c["HDD2"] = Square(r.c["HDD"])

\* C4 as amended: in every row of the returned table, CDD2 is the square of
\* the unrounded max(base - 65, 0), rounded to the nearest integer (ties to
\* even), and HDD2 likewise of max(65 - base, 0); they are the squares of
\* that row's CDD and HDD when base is a whole number.
C4_RoundedSquareOfUnrounded ==
    pc = "returned" =>
        \A r \in OutRows :
            LET base == InputTemp(r.idx)
                over == base.fx - BaseTemp * Unit
            IN  IF base.na THEN r.c["CDD2"].na /\ r.c["HDD2"].na
                ELSE /\ NearestToSquare(r.c["CDD2"], IF over > 0 THEN over ELSE 0)
                     /\ NearestToSquare(r.c["HDD2"], IF over < 0 THEN 0 - over ELSE 0)
                     /\ base.fx % Unit = 0 =>
                           /\ r.c["CDD2"] = Square(r.c["CDD"])
                           /\ r.c["HDD2"] = Square(r.c["HDD"])

\* a row of base temperature 66.5: CDD is 2 and CDD2 is 2
C4_Witness ==
    /\ pc = "returned"
    /\ \E r \in OutRows :
          /\ 2 * InputTemp(r.idx).fx = 133 * Unit
          /\ r.c["CDD"] = Num(2)
          /\ r.c["CDD2"] = Num(2)

MonthColumns ==
    <<"MONTH_2", "MONTH_3", "MONTH_4", "MONTH_5", "MONTH_6", "MONTH_7", "MONTH_8",
      "MONTH_9", "MONTH_10", "MONTH_11", "MONTH_12">>

TodColumns ==
    <<"TOD_1", "TOD_2", "TOD_3", "TOD_4", "TOD_5", "TOD_6", "TOD_7", "TOD_8",
      "TOD_9", "TOD_10", "TOD_11", "TOD_12", "TOD_13", "TOD_14", "TOD_15", "TOD_16",
      "TOD_17", "TOD_18", "TOD_19", "TOD_20", "TOD_21", "TOD_22", "TOD_23">>

DowColumns == <<"DOW_1", "DOW_2", "DOW_3", "DOW_4", "DOW_5", "DOW_6">>

\* the indicator columns names (for the categories first+1, first+2, ...) of a
\* row are 0 or 1, the 1 being at the row's category, if that is not first
OneHot(r, names, first, category) ==
    \A j \in 1..Len(names) :
        r.c[names[j]] = IF category = first + j THEN Num(1) ELSE Num(0)

\* C5: whatever months, hours and weekdays the rows cover, the returned table
\* has exactly the columns MONTH_2..MONTH_12, TOD_1..TOD_23 and DOW_1..DOW_6
\* (not MONTH_1, TOD_0, DOW_0), holding 0 or 1, and in every row each group
\* has its only 1 at the row's month/hour/weekday, and no 1 when that is the
\* reference category.
C5_OneHotColumns ==
    pc = "returned" =>
        LET cols == ret.out.columns
            n == Len(cols)
        IN  /\ n >= 40
            /\ SubSeq(cols, n - 39, n) = MonthColumns \o TodColumns \o DowColumns
            /\ \A j \in 1..(n - 40) :
                  cols[j] \in {"OAT", "aiTIT4045", "kW", "CDD", "HDD", "CDD2", "HDD2",
                               "WEEKEND", "SHIFT_1"}
            /\ \A r \in OutRows :
                  /\ DOMAIN r.c = ColumnSet(ret.out)
                  /\ OneHot(r, MonthColumns, 1, MonthOf(r.idx))
                  /\ OneHot(r, TodColumns, 0, HourOf(r.idx))
                  /\ OneHot(r, DowColumns, 0, WeekdayOf(r.idx))

\* two rows, Wed 31 Jan 23:00 and Thu 1 Feb 00:00: the first has no 1 among
\* the month columns, the second has MONTH_2 = 1 and no 1 among the hours
C5_Witness ==
    /\ pc = "returned"
    /\ NRows(ret.out) = 2
    /\ ret.out.rows[1].idx = 743
    /\ \A j \in 1..11 : ret.out.rows[1].c[MonthColumns[j]] = Num(0)
    /\ ret.out.rows[1].c["TOD_23"] = Num(1)
    /\ ret.out.rows[2].c["MONTH_2"] = Num(1)
    /\ \A j \in 1..23 : ret.out.rows[2].c[TodColumns[j]] = Num(0)
    /\ ret.out.rows[2].c["DOW_3"] = Num(1)

ShiftColumns(k) == {CatName("SHIFT_", i) : i \in 1..k}

\* the lag columns of the returned table are SHIFT_1..SHIFT_k, and SHIFT_i
\* holds the column at position point_location of that table, i rows earlier
LagsOfColumnAt(point_location) ==
    LET out == ret.out
        k == args.shift
        nc == Len(out.columns)
        pos == IF point_location < 0 THEN nc + point_location ELSE point_location
    IN  /\ ColumnSet(out) \cap ShiftColumns(MaxShift + 1) = ShiftColumns(k)
        /\ pos >= 0
        /\ pos < nc
        /\ \A i \in 1..k : \A t \in 1..NRows(out) :
              out.rows[t].c[CatName("SHIFT_", i)] =
                  IF t - i < 1 THEN NaN ELSE out.rows[t - i].c[out.columns[pos + 1]]
        /\ (/\ k = 1
            /\ NRows(out) >= 1
            /\ \A t \in 1..NRows(out) : ~out.rows[t].c[out.columns[pos + 1]].na) =>
              {t \in 1..NRows(out) : out.rows[t].c["SHIFT_1"].na} = {1}

\* C6: with shift = k and dropna = False the returned table has
\* exactly the lag columns SHIFT_1..SHIFT_k; SHIFT_i[t] is missing when t < i
\* (counting rows from 0) and otherwise the value at row t-i of the column at
\* position point_location of the same table; with k = 1 and a gap-free base
\* column of a non-empty table only the first row's SHIFT_1 is missing.
C6_LagOfColumnAtPosition ==
    (pc = "returned" /\ ~args.dropna) => LagsOfColumnAt(args.point_location)

\* C6 restricted to the positions of the input table's columns and of CDD,
\* HDD, CDD2, HDD2 (point_location from 0 to below the number of input
\* columns plus 4): there the lags are those of the column at point_location.
C6_LagOfInputOrDegreeDayColumn ==
    (/\ pc = "returned"
     /\ ~args.dropna
     /\ args.point_location >= 0
     /\ args.point_location < Len(args.table.columns) + 4) =>
        LagsOfColumnAt(args.point_location)

\* two lags of the temperature column of a two-row table, which was 66.5 and
\* is 66 in the returned table
C6_Witness ==
    /\ pc = "returned"
    /\ ~args.dropna
    /\ args.shift = 2
    /\ args.table.columns = <<"kW", "OAT">>
    /\ args.point_location = 1
    /\ NRows(ret.out) = 2
    /\ args.table.rows[1].c["OAT"] = Temp(MaxDev)
    /\ ret.out.rows[2].c["SHIFT_1"] = ret.out.rows[1].c["OAT"]
    /\ ret.out.rows[2].c["SHIFT_1"] # args.table.rows[1].c["OAT"]
    /\ ret.out.rows[2].c["SHIFT_2"] = NaN

\* C7: when the call fails, the caller's table is as it was before the call.
C7_FailureLeavesTableUnchanged ==
    pc = "raised" => df = args.table

====
